---- MODULE Spec2Model ----
(***************************************************************************)
(* Model of the risk aggregation pass of app.py: fetch_risk_data (the      *)
(* Position Enricher, one provider lookup per ledger row) followed by the  *)
(* groupby aggregation and the portfolio summary of the main script.       *)
(*                                                                         *)
(* Numbers are exact rationals <<n, d>> with d > 0 in lowest terms; the    *)
(* results of a float division by zero are <<1, 0>> (inf), <<-1, 0>>       *)
(* (-inf) and <<0, 0>> (nan).  None, and an empty numeric cell, is the     *)
(* empty tuple.  A ticker or a sector is a sequence of one-character       *)
(* strings, and a missing ticker cell is NaN.                              *)
(***************************************************************************)
EXTENDS Integers, Sequences, FiniteSets, TLC

VARIABLES df_list, pc, valid_dfs, total_rows, d, r, results,
          current_progress, progress_bar, reports, lookups, handled,
          grouped_df, summary

vars == <<df_list, pc, valid_dfs, total_rows, d, r, results,
          current_progress, progress_bar, reports, lookups, handled,
          grouped_df, summary>>

(***************************************************************************)
(* Bounds of the model.                                                    *)
(***************************************************************************)
MaxRows == 2

(***************************************************************************)
(* Values.                                                                 *)
(***************************************************************************)
None == <<>>

NaN == <<"NaN">>

Abs(x) == IF x < 0 THEN -x ELSE x

RECURSIVE Gcd(_, _)
Gcd(a, b) == IF b = 0 THEN a ELSE Gcd(b, a % b)

Sign(x) == IF x > 0 THEN 1 ELSE IF x < 0 THEN -1 ELSE 0

\* n / d as Python's float division computes it (rounding apart).
Rat(n, dd) ==
    IF dd = 0 THEN <<Sign(n), 0>>
    ELSE LET g == Gcd(Abs(n), Abs(dd))
             s == Sign(dd)
         IN  <<(s * n) \div g, (s * dd) \div g>>

Num(n) == <<n, 1>>

Zero == Num(0)

One == Num(1)

Add(a, b) == Rat(a[1] * b[2] + b[1] * a[2], a[2] * b[2])

Sub(a, b) == Rat(a[1] * b[2] - b[1] * a[2], a[2] * b[2])

Mul(a, b) == Rat(a[1] * b[1], a[2] * b[2])

Div(a, b) == Rat(a[1] * b[2], a[2] * b[1])

Leq(a, b) == a[1] * b[2] <= b[1] * a[2]

Gt(a, b) == a[1] * b[2] > b[1] * a[2]

Min(a, b) == IF Leq(a, b) THEN a ELSE b

\* Python truthiness of an optional number: None and 0 are false.
Truthy(x) == x # None /\ x[1] # 0

\* Python's `a or b`.
Or(a, b) == IF Truthy(a) THEN a ELSE b

\* dict.get(key, default)
Get(info, key, default) == IF key \in DOMAIN info THEN info[key] ELSE default

(***************************************************************************)
(* Strings: str.upper() and str.strip() over the characters of the model.  *)
(***************************************************************************)
UpperChar(c) == IF c = "a" THEN "A" ELSE c

Upper(s) == [i \in 1..Len(s) |-> UpperChar(s[i])]

RECURSIVE LStrip(_)
LStrip(s) == IF s # <<>> /\ Head(s) = " " THEN LStrip(Tail(s)) ELSE s

RECURSIVE RStrip(_)
RStrip(s) == IF s # <<>> /\ s[Len(s)] = " "
             THEN RStrip(SubSeq(s, 1, Len(s) - 1))
             ELSE s

Strip(s) == RStrip(LStrip(s))

\* pd.isna(ticker) or str(ticker).strip() == ""
IsBlank(ticker) == ticker = NaN \/ Strip(ticker) = <<>>

(***************************************************************************)
(* Input domains of the model: ledger rows and provider responses.         *)
(***************************************************************************)
Tech == <<"T", "e", "c", "h">>

\* The default sector of line 162 (the source spells it in Chinese).
Other == <<"O", "t", "h", "e", "r">>

BaseRow == [ticker |-> <<"a">>, shares |-> Num(5), cost |-> Num(150),
            user_beta |-> None]

BlankTickers == {NaN, <<>>, <<" ">>}

Rows ==
    {[BaseRow EXCEPT !.ticker = t] : t \in BlankTickers}
    \cup {[BaseRow EXCEPT !.shares = s] : s \in {Num(0), Num(-1)}}
    \cup {BaseRow,
          [BaseRow EXCEPT !.user_beta = Rat(3, 2)],
          [BaseRow EXCEPT !.ticker = <<"A", " ">>, !.cost = Zero,
                          !.user_beta = Zero]}

BaseInfo == [currentPrice |-> Num(100), previousClose |-> Num(90),
             beta |-> Rat(9, 10), sector |-> Tech]

BaseResp == [raises |-> FALSE, info |-> BaseInfo, hist |-> <<Num(95)>>]

NoPrice == [beta |-> Rat(9, 10), sector |-> Tech]

Infos ==
    {BaseInfo,
     [BaseInfo EXCEPT !.currentPrice = None],
     [BaseInfo EXCEPT !.currentPrice = Zero, !.previousClose = Zero],
     [BaseInfo EXCEPT !.currentPrice = Num(-100)],
     [BaseInfo EXCEPT !.beta = None, !.sector = None],
     [currentPrice |-> Num(100)]}

Responses ==
    {[BaseResp EXCEPT !.info = i] : i \in Infos}
    \cup {[BaseResp EXCEPT !.info = NoPrice, !.hist = h] : h \in {<<>>, <<Num(95)>>}}
    \cup {[BaseResp EXCEPT !.raises = TRUE]}

(***************************************************************************)
(* fetch_risk_data, one row at a time.                                     *)
(***************************************************************************)
\* Lines 149-152: live price, else previous close, else the last daily close.
ResolvePrice(resp) ==
    LET info == resp.info
        first == Or(Get(info, "currentPrice", None), Get(info, "previousClose", None))
    IN  IF first # None THEN first
        ELSE IF resp.hist # <<>> THEN resp.hist[Len(resp.hist)]
        ELSE None

\* Whether stock.info raises inside the try block.
Raises(resp) == resp.raises

\* FinalBeta with the precedence reversed: the provider's beta wins when present.
FinalBetaProviderFirst(user_beta, info) ==
    LET fetched_beta == Get(info, "beta", None)
    IN  IF fetched_beta # None
        THEN <<fetched_beta, "(system)">>
        ELSE IF Truthy(user_beta) /\ Gt(user_beta, Zero)
             THEN <<user_beta, "(custom)">>
             ELSE <<One, "(system)">>

\* Lines 154-160: <<final_beta, source_note>>.
FinalBeta(user_beta, info) ==
    IF Truthy(user_beta) /\ Gt(user_beta, Zero)
    THEN <<user_beta, "(custom)">>
    ELSE LET fetched_beta == Get(info, "beta", One)
         IN  <<IF fetched_beta # None THEN fetched_beta ELSE One, "(system)">>

\* Line 162.
Sector(info) == Get(info, "sector", Other)

\* Lines 164-179: the dictionary appended to results.
Position(ticker, row, price, fb, sector) ==
    LET market_value == Mul(price, row.shares)
    IN  [Ticker |-> ticker, Sector |-> sector, Price |-> price,
         Beta |-> fb[1], BetaSource |-> fb[2], Shares |-> row.shares,
         MarketValue |-> market_value,
         RiskExposure |-> Mul(market_value, fb[1]),
         PL_Val |-> Mul(Sub(price, row.cost), row.shares)]

\* EnrichRow emitting a row of zeros when no price is resolvable.
EnrichRowZeros(row, resp) ==
    IF Raises(resp) THEN <<>>
    ELSE LET price == ResolvePrice(resp)
         IN  <<Position(Upper(row.ticker), row,
                        IF Truthy(price) THEN price ELSE Zero,
                        FinalBeta(row.user_beta, resp.info),
                        Sector(resp.info))>>

\* Lines 138-180 for one row that passed both skips: what is appended to
\* results (nothing when the try block raises, `except: pass`).
EnrichRow(row, resp) ==
    IF Raises(resp) THEN <<>>
    ELSE LET price == ResolvePrice(resp)
         IN  IF Truthy(price)
             THEN <<Position(Upper(row.ticker), row, price,
                             FinalBeta(row.user_beta, resp.info),
                             Sector(resp.info))>>
             ELSE <<>>

\* NoShares testing shares < 0.
NoSharesStrict(row) == ~Leq(Zero, row.shares)

\* Line 143.
NoShares(row) == Leq(row.shares, Zero)

RECURSIVE Flatten(_)
Flatten(dfs) == IF dfs = <<>> THEN <<>> ELSE Head(dfs) \o Flatten(Tail(dfs))


(***************************************************************************)
(* The aggregation and the summary of the main script.                     *)
(***************************************************************************)
RECURSIVE SumSeq(_)
SumSeq(q) == IF q = <<>> THEN Zero ELSE Add(Head(q), SumSeq(Tail(q)))

RECURSIVE SumField(_, _)
SumField(S, f) ==
    IF S = {} THEN Zero
    ELSE LET x == CHOOSE y \in S : TRUE
         IN  Add(x[f], SumField(S \ {x}, f))

\* The members of one group, in the order of raw_df.
Group(raw, key) ==
    SelectSeq(raw, LAMBDA e : <<e.Ticker, e.Sector>> = key)

Column(q, f) == [i \in 1..Len(q) |-> q[i][f]]

\* AggregateRow taking Beta from the first lot, as it takes Price.
AggregateRowFirstBeta(g) ==
    [Ticker |-> g[1].Ticker, Sector |-> g[1].Sector,
     MarketValue |-> SumSeq(Column(g, "MarketValue")),
     RiskExposure |-> SumSeq(Column(g, "RiskExposure")),
     PL_Val |-> SumSeq(Column(g, "PL_Val")),
     Shares |-> SumSeq(Column(g, "Shares")),
     Price |-> g[1].Price, BetaSource |-> g[1].BetaSource,
     Beta |-> g[1].Beta]

\* AggregateRow with the plain average of the lots' betas.
AggregateRowMeanBeta(g) ==
    [Ticker |-> g[1].Ticker, Sector |-> g[1].Sector,
     MarketValue |-> SumSeq(Column(g, "MarketValue")),
     RiskExposure |-> SumSeq(Column(g, "RiskExposure")),
     PL_Val |-> SumSeq(Column(g, "PL_Val")),
     Shares |-> SumSeq(Column(g, "Shares")),
     Price |-> g[1].Price, BetaSource |-> g[1].BetaSource,
     Beta |-> Div(SumSeq(Column(g, "Beta")), Num(Len(g)))]

\* Lines 220-229 for one group: sums, 'first' of Price and BetaSource, and
\* the recomputed Beta.
AggregateRow(g) ==
    LET mv == SumSeq(Column(g, "MarketValue"))
        re == SumSeq(Column(g, "RiskExposure"))
    IN  [Ticker |-> g[1].Ticker, Sector |-> g[1].Sector,
         MarketValue |-> mv, RiskExposure |-> re,
         PL_Val |-> SumSeq(Column(g, "PL_Val")),
         Shares |-> SumSeq(Column(g, "Shares")),
         Price |-> g[1].Price, BetaSource |-> g[1].BetaSource,
         Beta |-> Div(re, mv)]

\* groupby(['Ticker', 'Sector']) drops the rows whose key holds a missing
\* value (pandas' dropna default).
GroupKeys(raw) ==
    {<<raw[i].Ticker, raw[i].Sector>> : i \in {j \in 1..Len(raw) : raw[j].Sector # None}}

GroupBy(raw) == {AggregateRow(Group(raw, k)) : k \in GroupKeys(raw)}

\* Summarise dividing by initial_capital without the guard of line 235.
SummariseUnguarded(rows) ==
    LET total_assets == SumField(rows, "MarketValue")
        total_risk_exposure == SumField(rows, "RiskExposure")
        total_pl == SumField(rows, "PL_Val")
        initial_capital == Sub(total_assets, total_pl)
    IN  [total_assets |-> total_assets,
         total_risk_exposure |-> total_risk_exposure,
         total_pl |-> total_pl,
         initial_capital |-> initial_capital,
         total_pl_pct |-> Mul(Div(total_pl, initial_capital), Num(100)),
         portfolio_beta |-> IF Gt(total_assets, Zero)
                            THEN Div(total_risk_exposure, total_assets)
                            ELSE Zero]

\* Lines 231-240.
Summarise(rows) ==
    LET total_assets == SumField(rows, "MarketValue")
        total_risk_exposure == SumField(rows, "RiskExposure")
        total_pl == SumField(rows, "PL_Val")
        initial_capital == Sub(total_assets, total_pl)
    IN  [total_assets |-> total_assets,
         total_risk_exposure |-> total_risk_exposure,
         total_pl |-> total_pl,
         initial_capital |-> initial_capital,
         total_pl_pct |-> IF Gt(initial_capital, Zero)
                          THEN Mul(Div(total_pl, initial_capital), Num(100))
                          ELSE Zero,
         portfolio_beta |-> IF Gt(total_assets, Zero)
                            THEN Div(total_risk_exposure, total_assets)
                            ELSE Zero]

(***************************************************************************)
(* The state machine.                                                      *)
(***************************************************************************)
RowSeqs == UNION {[1..n -> Rows] : n \in 0..MaxRows}

Slice(q, a, b) == [k \in 1..(b - a + 1) |-> q[a + k - 1]]

\* The three ledgers of line 213: a row sequence cut at two places.
DfLists ==
    UNION {UNION {{<<Slice(q, 1, i), Slice(q, i + 1, j), Slice(q, j + 1, Len(q))>> :
                     i \in 0..j} : j \in 0..Len(q)} : q \in RowSeqs}

Init ==
    /\ df_list \in DfLists
    /\ pc = "start"
    /\ valid_dfs = <<>>
    /\ total_rows = 0
    /\ d = 1
    /\ r = 1
    /\ results = <<>>
    /\ current_progress = 0
    /\ progress_bar = "none"
    /\ reports = <<>>
    /\ lookups = <<>>
    /\ handled = <<>>
    /\ grouped_df = {}
    /\ summary = None

\* Lines 123-131.
Begin ==
    /\ pc = "start"
    /\ LET valid == SelectSeq(df_list, LAMBDA df : df # <<>>)
           total == Len(Flatten(valid))
       IN  /\ valid_dfs' = valid
           /\ total_rows' = total
           /\ IF total = 0
              THEN /\ pc' = "returned"
                   /\ UNCHANGED <<progress_bar, reports>>
              ELSE /\ pc' = "loop"
                   /\ progress_bar' = "shown"
                   /\ reports' = <<Zero>>
    /\ UNCHANGED <<df_list, d, r, results, current_progress, lookups, handled,
                   grouped_df, summary>>

InLoop == pc = "loop" /\ d <= Len(valid_dfs)

\* The next position of the two nested for loops.
Advance ==
    IF r < Len(valid_dfs[d])
    THEN r' = r + 1 /\ d' = d
    ELSE r' = 1 /\ d' = d + 1

\* Line 136: `continue` on a missing or blank ticker.
SkipBlank ==
    /\ InLoop
    /\ LET row == valid_dfs[d][r]
       IN  /\ IsBlank(row.ticker)
           /\ handled' = Append(handled, [row |-> row, kind |-> "blank", resp |-> None])
    /\ Advance
    /\ UNCHANGED <<df_list, pc, valid_dfs, total_rows, results, current_progress,
                   progress_bar, reports, lookups, grouped_df, summary>>

\* Line 143: `continue` on shares <= 0.
SkipShares ==
    /\ InLoop
    /\ LET row == valid_dfs[d][r]
       IN  /\ ~IsBlank(row.ticker)
           /\ NoShares(row)
           /\ handled' = Append(handled, [row |-> row, kind |-> "shares", resp |-> None])
    /\ Advance
    /\ UNCHANGED <<df_list, pc, valid_dfs, total_rows, results, current_progress,
                   progress_bar, reports, lookups, grouped_df, summary>>

\* Lines 138-183: the lookup, the appended position and the progress report.
Lookup ==
    /\ InLoop
    /\ LET row == valid_dfs[d][r]
       IN  /\ ~IsBlank(row.ticker)
           /\ ~NoShares(row)
           /\ \E resp \in Responses :
                /\ results' = results \o EnrichRow(row, resp)
                /\ handled' = Append(handled, [row |-> row, kind |-> "lookup", resp |-> resp])
           /\ lookups' = Append(lookups, Upper(row.ticker))
    /\ current_progress' = current_progress + 1
    /\ reports' = Append(reports, Min(Rat(current_progress + 1, total_rows), One))
    /\ Advance
    /\ UNCHANGED <<df_list, pc, valid_dfs, total_rows, progress_bar, grouped_df,
                   summary>>

\* Lines 185-186.
Finish ==
    /\ pc = "loop"
    /\ d > Len(valid_dfs)
    /\ progress_bar' = "cleared"
    /\ pc' = "returned"
    /\ UNCHANGED <<df_list, valid_dfs, total_rows, d, r, results, current_progress,
                   reports, lookups, handled, grouped_df, summary>>

\* Lines 216-240: the rows, then the summary.
Aggregate ==
    /\ pc = "returned"
    /\ results # <<>>
    /\ grouped_df' = GroupBy(results)
    /\ summary' = Summarise(GroupBy(results))
    /\ pc' = "done"
    /\ UNCHANGED <<df_list, valid_dfs, total_rows, d, r, results, current_progress,
                   progress_bar, reports, lookups, handled>>

\* Lines 292-299: nothing is computed when fetch_risk_data returned no position.
NoData ==
    /\ pc = "returned"
    /\ results = <<>>
    /\ pc' = "done"
    /\ UNCHANGED <<df_list, valid_dfs, total_rows, d, r, results, current_progress,
                   progress_bar, reports, lookups, handled, grouped_df, summary>>

Next ==
    \/ Begin
    \/ SkipBlank
    \/ SkipShares
    \/ Lookup
    \/ Finish
    \/ Aggregate
    \/ NoData

Spec == Init /\ [][Next]_vars


(***************************************************************************)
(* Vocabulary of the properties.                                           *)
(***************************************************************************)
Returned == pc \in {"returned", "done"}

Grouped == pc = "done" /\ results # <<>>

InputRows == Flatten(df_list)

\* A ticker that is missing, empty or made of whitespace only.
BlankTicker(t) == t = NaN \/ \A i \in 1..Len(t) : t[i] = " "

Eligible(row) == ~BlankTicker(row.ticker) /\ Gt(row.shares, Zero)

Count(q, P(_)) == Len(SelectSeq(q, P))

\* A lookup that fails: the provider raises, or no fallback resolves a price.
LookupFails(h) ==
    h.kind = "lookup" /\ (Raises(h.resp) \/ ResolvePrice(h.resp) = None)

RECURSIVE EnrichAll(_)
EnrichAll(hs) ==
    IF hs = <<>> THEN <<>>
    ELSE (IF Head(hs).kind = "lookup"
          THEN EnrichRow(Head(hs).row, Head(hs).resp)
          ELSE <<>>) \o EnrichAll(Tail(hs))

\* What the pass yields on the input with the failing records removed.
WithoutFailing == EnrichAll(SelectSeq(handled, LAMBDA h : ~LookupFails(h)))

Lots(key) == {i \in 1..Len(results) : <<results[i].Ticker, results[i].Sector>> = key}

RECURSIVE SumLots(_, _)
SumLots(I, v) ==
    IF I = {} THEN Zero
    ELSE LET i == CHOOSE j \in I : TRUE
         IN  Add(v[i], SumLots(I \ {i}, v))

Perms(n) == {f \in [1..n -> 1..n] : \A i, j \in 1..n : f[i] = f[j] => i = j}

Permuted(q, f) == [i \in 1..Len(q) |-> q[f[i]]]

\* An Aggregate Row without the two fields taken from the group's first lot.
Sums(row) == [Ticker |-> row.Ticker, Sector |-> row.Sector,
              MarketValue |-> row.MarketValue, RiskExposure |-> row.RiskExposure,
              PL_Val |-> row.PL_Val, Shares |-> row.Shares, Beta |-> row.Beta]

(***************************************************************************)
(* C1: a record whose lookup fails (the provider raises, or no price is    *)
(* resolvable) adds no position and does not stop the pass: every row is   *)
(* handled, the positions returned are exactly those of the input without  *)
(* the failing records, and so are the rows and the totals.                *)
(***************************************************************************)
C1_FaultIsolation ==
    pc = "done" =>
        LET kept == WithoutFailing
            rows == GroupBy(kept)
        IN  /\ [i \in 1..Len(handled) |-> handled[i].row] = InputRows
            /\ \A i \in 1..Len(handled) :
                  Eligible(handled[i].row) => handled[i].kind = "lookup"
            /\ results = kept
            /\ results # <<>> =>
                  grouped_df = rows /\ summary = Summarise(rows)

C1_Witness ==
    /\ pc = "done"
    /\ \E i, j \in 1..Len(handled) :
          /\ i < j
          /\ LookupFails(handled[i])
          /\ handled[i].resp.raises
          /\ handled[j].kind = "lookup"
          /\ ~LookupFails(handled[j])
    /\ Len(results) = 1
    /\ summary.total_assets = Num(500)

(***************************************************************************)
(* C2: whenever a lookup appends a position, its beta is the row's         *)
(* user_beta with source "(custom)" when user_beta is present and > 0,     *)
(* and otherwise the provider's beta, or 1.0 when the provider has none    *)
(* (absent or None), with source "(system)".                               *)
(***************************************************************************)
C2_BetaPolicy ==
    [][Len(results') = Len(results) + 1 =>
         LET e == results'[Len(results')]
             h == handled'[Len(handled')]
             ub == h.row.user_beta
             info == h.resp.info
         IN  IF ub # None /\ Gt(ub, Zero)
             THEN e.Beta = ub /\ e.BetaSource = "(custom)"
             ELSE /\ e.BetaSource = "(system)"
                  /\ e.Beta = IF "beta" \in DOMAIN info /\ info.beta # None
                              THEN info.beta
                              ELSE One]_vars

C2_Witness ==
    /\ Len(results) = 2
    /\ Len(handled) = 2
    /\ handled[1].row.user_beta = Rat(3, 2)
    /\ handled[1].resp.info = BaseInfo
    /\ results[1].Beta = Rat(3, 2)
    /\ results[1].BetaSource = "(custom)"
    /\ handled[2].row.user_beta = Zero
    /\ handled[2].resp.info = [BaseInfo EXCEPT !.beta = None, !.sector = None]
    /\ results[2].Beta = One
    /\ results[2].BetaSource = "(system)"

C4_OrderIndependent ==
    Grouped =>
        \A f \in Perms(Len(results)) :
            LET rows == GroupBy(Permuted(results, f))
            IN  rows = grouped_df /\ Summarise(rows) = summary

(***************************************************************************)
(* C4 amended: every permutation of the positions gives the same rows up   *)
(* to Price and BetaSource, which are those of the group's first lot in    *)
(* the order given, and the same summary.                                  *)
(***************************************************************************)
C4_OrderIndependentSums ==
    Grouped =>
        LET sums == {Sums(row) : row \in grouped_df}
        IN  /\ \A f \in Perms(Len(results)) :
                  LET rows == GroupBy(Permuted(results, f))
                  IN  /\ {Sums(row) : row \in rows} = sums
                      /\ Summarise(rows) = summary
            /\ \A row \in grouped_df :
                  LET I == Lots(<<row.Ticker, row.Sector>>)
                      first == results[CHOOSE i \in I : \A j \in I : i <= j]
                  IN  row.Price = first.Price /\ row.BetaSource = first.BetaSource

C4_Witness ==
    /\ pc = "done"
    /\ Len(results) = 2
    /\ Cardinality(grouped_df) = 1
    /\ results[1].BetaSource = "(custom)"
    /\ results[2].BetaSource = "(system)"
    /\ results[1].Price # results[2].Price
    /\ \A row \in grouped_df : row.BetaSource = "(custom)"

(***************************************************************************)
(* C5: each (ticker, sector) group gives one row whose MarketValue,        *)
(* RiskExposure, PL_Val and Shares are the sums over the group's lots and  *)
(* whose Beta is RiskExposure / MarketValue: Beta * (sum of the lots'      *)
(* market values) = sum of (lot market value * lot beta).                  *)
(***************************************************************************)
C5_WeightedBeta ==
    pc = "done" =>
        \A row \in grouped_df :
            LET I == Lots(<<row.Ticker, row.Sector>>)
                mv == SumLots(I, [i \in I |-> results[i].MarketValue])
                weighted == SumLots(I, [i \in I |-> Mul(results[i].MarketValue,
                                                        results[i].Beta)])
            IN  /\ I # {}
                /\ Cardinality({x \in grouped_df : x.Ticker = row.Ticker
                                                   /\ x.Sector = row.Sector}) = 1
                /\ row.MarketValue = mv
                /\ row.RiskExposure = weighted
                /\ row.PL_Val = SumLots(I, [i \in I |-> results[i].PL_Val])
                /\ row.Shares = SumLots(I, [i \in I |-> results[i].Shares])
                /\ IF mv[1] # 0
                   THEN row.Beta[2] > 0 /\ Mul(row.Beta, mv) = weighted
                   ELSE row.Beta = <<Sign(weighted[1]), 0>>

C5_Witness ==
    /\ pc = "done"
    /\ Len(results) = 2
    /\ results[1].Shares = Num(5) /\ results[1].Price = Num(100)
    /\ results[2].Shares = Num(5) /\ results[2].Price = Num(100)
    /\ results[1].Beta = Rat(3, 2)
    /\ results[2].Beta = Rat(9, 10)
    /\ \E row \in grouped_df :
          /\ grouped_df = {row}
          /\ row.MarketValue = Num(1000)
          /\ row.RiskExposure = Num(1200)
          /\ row.Beta = Rat(6, 5)

(***************************************************************************)
(* C6: the summary holds the sums of the rows, initial_capital =           *)
(* total_assets - total_pl, total_pl_pct = total_pl / initial_capital *    *)
(* 100 when initial_capital > 0 and 0 otherwise, portfolio_beta =          *)
(* total_risk_exposure / total_assets when total_assets > 0 and 0 when it  *)
(* is 0; with no rows every one of them is 0.                              *)
(***************************************************************************)
C6_PortfolioSummary ==
    (pc = "done" /\ results # <<>>) =>
        LET ta == SumField(grouped_df, "MarketValue")
            tre == SumField(grouped_df, "RiskExposure")
            tpl == SumField(grouped_df, "PL_Val")
            ic == summary.initial_capital
        IN  /\ summary.total_assets = ta
            /\ summary.total_risk_exposure = tre
            /\ summary.total_pl = tpl
            /\ Add(ic, tpl) = ta
            /\ summary.total_pl_pct[2] > 0
            /\ summary.portfolio_beta[2] > 0
            /\ IF Gt(ic, Zero)
               THEN Mul(summary.total_pl_pct, ic) = Mul(tpl, Num(100))
               ELSE summary.total_pl_pct = Zero
            /\ Gt(ta, Zero) => Mul(summary.portfolio_beta, ta) = tre
            /\ ta = Zero => summary.portfolio_beta = Zero
            /\ grouped_df = {} =>
                  /\ ta = Zero /\ tre = Zero /\ tpl = Zero
                  /\ summary.portfolio_beta = Zero
                  /\ summary.total_pl_pct = Zero

C6_Witness ==
    /\ pc = "done"
    /\ results # <<>>
    /\ grouped_df = {}
    /\ summary.total_assets = Zero
    /\ summary.total_pl_pct = Zero
    /\ summary.portfolio_beta = Zero

(***************************************************************************)
(* C7 as stated: every Aggregate Row has MarketValue > 0, a group whose    *)
(* summed market value is <= 0 being excluded before the division.         *)
(***************************************************************************)
C7_PositiveMarketValue ==
    Grouped => \A row \in grouped_df : Gt(row.MarketValue, Zero)

(***************************************************************************)
(* C8 as stated: once a pass over at least one row has returned, the       *)
(* observer has received one fraction per input row after the initial 0,   *)
(* the k-th being k / total rows, the fractions never decrease and stay    *)
(* within [0, 1], and the progress bar has been cleared.                   *)
(***************************************************************************)
C8_ProgressPerRecord ==
    (Returned /\ InputRows # <<>>) =>
        /\ progress_bar = "cleared"
        /\ Len(reports) = 1 + Len(InputRows)
        /\ \A k \in 1..Len(InputRows) : reports[k + 1] = Rat(k, Len(InputRows))
        /\ \A k \in 1..Len(reports) : Leq(Zero, reports[k]) /\ Leq(reports[k], One)
        /\ \A k \in 1..(Len(reports) - 1) : Leq(reports[k], reports[k + 1])

(***************************************************************************)
(* C9 as stated: the ticker of every position, and the symbol of every     *)
(* lookup, is the row's ticker uppercased and trimmed, so that rows whose  *)
(* tickers differ only in case or surrounding whitespace share one symbol  *)
(* and one Aggregate Row per sector.                                       *)
(***************************************************************************)
C9_TickerNormalized ==
    /\ \A i \in 1..Len(results) :
          results[i].Ticker = Strip(Upper(results[i].Ticker))
    /\ \A i \in 1..Len(lookups) : lookups[i] = Strip(Upper(lookups[i]))
    /\ Grouped =>
          \A x, y \in grouped_df :
              (Strip(Upper(x.Ticker)) = Strip(Upper(y.Ticker)) /\ x.Sector = y.Sector)
                  => x = y

(***************************************************************************)
(* C10 as stated: every position carries a string sector, "Other" when     *)
(* the provider has none, so every position is in exactly one group and    *)
(* total_assets is the sum of the positions' market values.                *)
(***************************************************************************)
C10_SectorConservation ==
    /\ \A i \in 1..Len(results) : results[i].Sector # None
    /\ Grouped =>
          \A i \in 1..Len(results) :
              Cardinality({row \in grouped_df :
                              <<row.Ticker, row.Sector>>
                                  = <<results[i].Ticker, results[i].Sector>>}) = 1
    /\ (pc = "done" /\ results # <<>>) =>
          summary.total_assets
              = SumLots(1..Len(results), [i \in 1..Len(results) |-> results[i].MarketValue])

====
